---- MODULE Spec2Model ----
(***************************************************************************)
(* Feathery ML: the query pipeline (QueryManager, CodeGenerator), the      *)
(* interactive ChatSession loop and the qna.json history file.             *)
(*                                                                         *)
(* Python values are modelled as follows.                                  *)
(*   str        a sequence of one-character strings                        *)
(*   None       PyNone, a one-element sequence whose element is no Char    *)
(*   dict       a function from keys (strings) to values; {} is <<>>       *)
(*   list       a sequence                                                 *)
(*   exception  a record field ok = FALSE (the call raised)                *)
(* A file is [exists, text]; the text of qna.json is kept at the           *)
(* granularity of JSON array tokens: the opening bracket, the items        *)
(* written so far, the closing bracket.  json.dumps produces a complete    *)
(* text, a write cut short leaves a proper prefix of it, and json.loads    *)
(* accepts complete texts only.                                            *)
(***************************************************************************)
EXTENDS Integers, Sequences, FiniteSets, TLC

VARIABLES
    qna,        \* the file Path.cwd() / "qna.json"
    clock,      \* the wall clock read by datetime.now()
    session,    \* position of ChatSession.start_session: "none", "running", "terminated"
    history,    \* ChatSession.history
    context,    \* QueryManager.context of the manager in use
    autoCommit, \* ChatSession.git_controller is not None
    obs,        \* what the last operation was given, called and returned
    base,       \* number of entries of qna.json when the session started
    turns,      \* queries processed to completion in the session
    fails,      \* consecutive failed turns in the session
    procs,      \* the concurrent appenders (specification SpecConc)
    feathers    \* the configuration file ".feathers" (specification SpecConfig)

vars ==
    <<qna, clock, session, history, context, autoCommit, obs, base, turns, fails, procs,
      feathers>>

----------------------------------------------------------------------------
(* Bounds of the model *)

MaxClock == 3       \* datetime.now() is read at most this many times
MaxBulk == 2        \* longest list handed to bulk_update_history directly
MaxItems == 3       \* bulk_update_history is not called on a longer file
MaxFails == 2       \* the count of consecutive failed turns saturates here
MaxRows == 2        \* most rows of a data file
MaxCols == 2        \* most columns of a data file

----------------------------------------------------------------------------
(* Strings *)

Lowercase ==
    {"a", "c", "d", "e", "f", "h", "i", "j", "l", "m", "n", "o", "p", "q", "r", "s",
     "t", "u", "v", "x", "y"}
Uppercase == {"C", "D", "E", "H", "I", "J", "L", "O", "P", "S", "T", "V", "X"}
Char == Lowercase \cup Uppercase \cup {" ", ":", "#", "/", ".", "\n"}

PyNone == <<"NoneType">>

IsStr(v) == \A i \in DOMAIN v : v[i] \in Char

\* str.lower() on one character
LowerChar(c) ==
    CASE c = "C" -> "c"
      [] c = "D" -> "d"
      [] c = "E" -> "e"
      [] c = "H" -> "h"
      [] c = "I" -> "i"
      [] c = "J" -> "j"
      [] c = "L" -> "l"
      [] c = "O" -> "o"
      [] c = "P" -> "p"
      [] c = "S" -> "s"
      [] c = "T" -> "t"
      [] c = "V" -> "v"
      [] c = "X" -> "x"
      [] OTHER -> c

\* str.lower()
Lower(s) == [i \in 1..Len(s) |-> LowerChar(s[i])]

S_exit == <<"e", "x", "i", "t">>
S_help == <<"h", "e", "l", "p">>
S_history == <<"h", "i", "s", "t", "o", "r", "y">>
S_Exit == <<"E", "x", "i", "t">>
S_HELP == <<"H", "E", "L", "P">>
S_mean == <<"m", "e", "a", "n">>
S_blank == <<" ">>
S_empty == <<>>

\* "delete all files in /tmp"
S_delete ==
    <<"d", "e", "l", "e", "t", "e", " ", "a", "l", "l", " ", "f", "i", "l", "e", "s", " ",
      "i", "n", " ", "/", "t", "m", "p">>

\* the text after the query in the generated code: "\n# TODO: Implement analysis"
CodeSuffix ==
    <<"\n", "#", " ", "T", "O", "D", "O", ":", " ", "I", "m", "p", "l", "e", "m", "e", "n", "t",
      " ", "a", "n", "a", "l", "y", "s", "i", "s">>

\* what _get_user_input hands to the loop: Prompt.ask returns the line typed,
\* the empty string when nothing was typed
ChatInputs == {S_exit, S_Exit, S_help, S_HELP, S_history, S_mean, S_empty}

\* the query argument of the analyze command
AnalyzeQueries == {S_mean, S_blank, S_empty, S_delete}

\* the query argument of a direct process_query call
ApiQueries == {S_mean, PyNone}

----------------------------------------------------------------------------
(* Dictionaries *)

EmptyDict == <<>>

\* dict.update as it would be if the keys already there were kept
DictUpdate_keepOld(old, new) == old @@ new

\* dict.update: the keys of new override those of old
DictUpdate(old, new) == new @@ old

\* the context argument of a direct process_query call (None: no argument)
ApiContexts == {EmptyDict, [a |-> 1], [a |-> 2, b |-> 1]}

----------------------------------------------------------------------------
(* JSON text of an array, and the file *)

\* what a text carries behind its array: nothing, or the end of a longer text
\* that was in the file when this one was written over its beginning
NoTail == <<>>

EmptyText == [open |-> FALSE, items |-> <<>>, close |-> FALSE, tail |-> NoTail]

\* json.dumps(history, indent=2)
JsonDumps(list) == [open |-> TRUE, items |-> list, close |-> TRUE, tail |-> NoTail]

\* json.loads(text): raises JSONDecodeError unless the text is a complete array
JsonLoads(text) ==
    IF text.open /\ text.close /\ text.tail = NoTail
    THEN [ok |-> TRUE, value |-> text.items]
    ELSE [ok |-> FALSE, value |-> <<>>]

\* the proper prefixes of a text: what a write cut short can leave behind
Truncations(text) ==
    {EmptyText} \cup
    {[open |-> TRUE, items |-> SubSeq(text.items, 1, k), close |-> FALSE,
      tail |-> NoTail] :
        k \in 0..Len(text.items)}

AbsentFile == [exists |-> FALSE, text |-> EmptyText]

\* Path.write_text(data) run to completion
WriteText(data) == [exists |-> TRUE, text |-> data]

----------------------------------------------------------------------------
(* CodeGenerator *)

\* a record of one call made while an operation ran: the callee, the string it
\* was given, and whether it returned normally with a true value
Call(fn, arg, ret) == [fn |-> fn, arg |-> arg, ret |-> ret]

\* context.get("data") if context else None
ContextData(ctx) ==
    IF ctx # EmptyDict /\ "data" \in DOMAIN ctx THEN ctx["data"] ELSE PyNone

\* CodeGenerator._process_query: AnalysisQuery(query_text=query, ...) is a
\* pydantic model with query_text: str, so a query that is no str raises;
\* data_info = {"shape": getattr(data, "shape", None)} is accepted for any data
_process_query(query, data) == [ok |-> IsStr(query)]

\* CodeGenerator.validate_code: the body is "return True"
validate_code(code, query) == TRUE

\* generate as it would be without the validation step: the code is returned
\* although validate_code was never asked
generate_unvalidated(query, ctx) ==
    LET aq == _process_query(query, ContextData(ctx))
        code == query \o CodeSuffix
    IN  IF ~aq.ok
        THEN [ok |-> FALSE, code |-> <<>>,
              calls |-> <<Call("_process_query", query, FALSE)>>]
        ELSE [ok |-> TRUE, code |-> code,
              calls |-> <<Call("_process_query", query, TRUE)>>]

\* CodeGenerator.generate
generate(query, ctx) ==
    LET aq == _process_query(query, ContextData(ctx))
        code == query \o CodeSuffix
        verdict == validate_code(code, query)
    IN  IF ~aq.ok
        THEN [ok |-> FALSE, code |-> <<>>,
              calls |-> <<Call("_process_query", query, FALSE)>>]
        ELSE IF ~verdict
        THEN [ok |-> FALSE, code |-> code,
              calls |-> <<Call("_process_query", query, TRUE),
                          Call("validate_code", code, FALSE)>>]
        ELSE [ok |-> TRUE, code |-> code,
              calls |-> <<Call("_process_query", query, TRUE),
                          Call("validate_code", code, TRUE)>>]

----------------------------------------------------------------------------
(* QueryManager *)

\* datetime.isoformat(): a string that determines the instant
Isoformat(t) == [iso |-> t]

\* QueryManager._execute_analysis
_execute_analysis(code) == "Analysis results placeholder"

\* QueryManager._create_result, with datetime.now() = now
_create_result(query, code, result, ctx, now) ==
    [query |-> query, code |-> code, result |-> result,
     timestamp |-> Isoformat(now), context |-> ctx]

NoResult == _create_result(<<>>, <<>>, "", EmptyDict, 0)

\* the load as it would be without the exists() test: read_text of a file that
\* is not there raises FileNotFoundError
LoadHistory_unguarded(file) ==
    IF file.exists THEN JsonLoads(file.text) ELSE [ok |-> FALSE, value |-> <<>>]

\* "Load existing history" of _update_history and bulk_update_history
LoadHistory(file) ==
    IF file.exists THEN JsonLoads(file.text) ELSE [ok |-> TRUE, value |-> <<>>]

\* the object as it would be with the code taken from the wrong field
HistoryObject_swapped(result) ==
    [query |-> result.query, code |-> result.query,
     timestamp |-> result.timestamp, context |-> result.context]

\* the object _update_history appends
HistoryObject(result) ==
    [query |-> result.query, code |-> result.code,
     timestamp |-> result.timestamp, context |-> result.context]

\* QueryManager._update_history, run to completion
_update_history(result, file) ==
    LET loaded == LoadHistory(file)
    IN  IF ~loaded.ok
        THEN [ok |-> FALSE, qna |-> file]
        ELSE [ok |-> TRUE,
              qna |-> WriteText(JsonDumps(Append(loaded.value, HistoryObject(result))))]

\* bulk_update_history as it would be if it wrote the given entries alone
bulk_update_history_restart(entries, file) ==
    LET loaded == LoadHistory(file)
    IN  IF ~loaded.ok
        THEN [ok |-> FALSE, qna |-> file]
        ELSE [ok |-> TRUE, qna |-> WriteText(JsonDumps(entries))]

\* QueryManager.bulk_update_history, run to completion
bulk_update_history(entries, file) ==
    LET loaded == LoadHistory(file)
    IN  IF ~loaded.ok
        THEN [ok |-> FALSE, qna |-> file]
        ELSE [ok |-> TRUE, qna |-> WriteText(JsonDumps(loaded.value \o entries))]

\* QueryManager.process_query(query, context) on a manager whose context is
\* ctx0, with the file as it is and datetime.now() = now.  ticks counts the
\* reads of the clock.
process_query(query, ctxArg, ctx0, file, now) ==
    LET ctx1 == IF ctxArg # EmptyDict THEN DictUpdate(ctx0, ctxArg) ELSE ctx0
        g == generate(query, ctx1)
        executed == _execute_analysis(g.code)
        res == _create_result(query, g.code, executed, ctx1, now)
        upd == _update_history(res, file)
    IN  IF ~g.ok
        THEN [ok |-> FALSE, result |-> NoResult, context |-> ctx1, qna |-> file,
              ticks |-> 0, calls |-> g.calls]
        ELSE IF ~upd.ok
        THEN [ok |-> FALSE, result |-> NoResult, context |-> ctx1, qna |-> file,
              ticks |-> 1,
              calls |-> g.calls \o <<Call("_execute_analysis", g.code, TRUE),
                                     Call("_update_history", query, FALSE)>>]
        ELSE [ok |-> TRUE, result |-> res, context |-> ctx1, qna |-> upd.qna,
              ticks |-> 1,
              calls |-> g.calls \o <<Call("_execute_analysis", g.code, TRUE),
                                     Call("_update_history", query, TRUE)>>]

----------------------------------------------------------------------------
(* GitController and ChatSession *)

\* GitController.commit_changes: git add and git commit run with check=True,
\* so the call raises when git fails; whether it does is the environment's
commit_changes(gitOk) == [ok |-> gitOk]

\* ChatSession._handle_result: the entry added to the session history
_handle_result(result, hist, now) ==
    Append(hist, [query |-> result.query, timestamp |-> Isoformat(now),
                  code |-> result.code])

\* ChatSession._save_history: bulk_update_history(self.history), re-raised
_save_history(hist, file) == bulk_update_history(hist, file)

\* ChatSession._end_session
_end_session(hist, file) == _save_history(hist, file)

\* the if/elif chain as it would be without lower()
Command_caseSensitive(query) ==
    IF query = S_exit THEN "exit"
    ELSE IF query = S_help THEN "help"
    ELSE IF query = S_history THEN "history"
    ELSE "query"

\* the if/elif chain of start_session on the lower-cased input
Command(query) ==
    IF Lower(query) = S_exit THEN "exit"
    ELSE IF Lower(query) = S_help THEN "help"
    ELSE IF Lower(query) = S_history THEN "history"
    ELSE "query"

\* the handler as it would be if it left the loop
ExceptionEndsLoop == "terminated"

\* "except Exception" of start_session logs, prints and falls through to the
\* next iteration of the while loop
AfterException == "running"

\* "except KeyboardInterrupt" and the break after _end_session leave the loop
AfterBreak == "terminated"

Min(a, b) == IF a < b THEN a ELSE b

Observe(op, input, ok, calls, entries) ==
    [op |-> op, input |-> input, ok |-> ok, calls |-> calls, entries |-> entries,
     pre |-> qna, preContext |-> context, ctxArg |-> EmptyDict, result |-> NoResult]

\* the same for an operation that ran process_query(input, ctxArg) and got
\* result from it (NoResult when it raised)
ObserveQuery(op, input, ctxArg, ok, calls, result) ==
    [Observe(op, input, ok, calls, <<>>) EXCEPT !.ctxArg = ctxArg, !.result = result]

\* the iteration as it would be if a failed commit took the turn's entry back
\* out of the file and of the session history
TurnOutcome_rollback(query, gitOk) ==
    LET r == process_query(query, EmptyDict, context, qna, clock + 1)
        c == commit_changes(gitOk)
        committed == autoCommit /\ r.ok
        kept == r.ok /\ (committed => c.ok)
        calls == r.calls
                 \o (IF r.ok THEN <<Call("_handle_result", query, TRUE)>> ELSE <<>>)
                 \o (IF committed THEN <<Call("commit_changes", query, c.ok)>> ELSE <<>>)
    IN  [ok |-> kept,
         processed |-> r.ok,
         qna |-> IF kept THEN r.qna ELSE qna,
         context |-> r.context,
         history |-> IF kept THEN _handle_result(r.result, history, clock + 2) ELSE history,
         clock |-> IF r.ok THEN clock + 2 ELSE clock + r.ticks,
         result |-> r.result,
         calls |-> <<Call("process_query", query, r.ok)>> \o calls]

\* one iteration of the loop of start_session on an input that is no command:
\* process_query, _handle_result, then commit_changes when auto-commit is on
TurnOutcome(query, gitOk) ==
    LET r == process_query(query, EmptyDict, context, qna, clock + 1)
        c == commit_changes(gitOk)
        committed == autoCommit /\ r.ok
        calls == r.calls
                 \o (IF r.ok THEN <<Call("_handle_result", query, TRUE)>> ELSE <<>>)
                 \o (IF committed THEN <<Call("commit_changes", query, c.ok)>> ELSE <<>>)
    IN  [ok |-> r.ok /\ (committed => c.ok),
         processed |-> r.ok,
         qna |-> r.qna,
         context |-> r.context,
         history |-> IF r.ok THEN _handle_result(r.result, history, clock + 2) ELSE history,
         clock |-> IF r.ok THEN clock + 2 ELSE clock + r.ticks,
         result |-> r.result,
         calls |-> <<Call("process_query", query, r.ok)>> \o calls]

StartSession(auto) ==
    /\ session # "running"
    /\ session' = "running"
    /\ history' = <<>>
    /\ context' = EmptyDict
    /\ autoCommit' = auto
    /\ base' = Len(LoadHistory(qna).value)
    /\ turns' = 0
    /\ fails' = 0
    /\ obs' = Observe("start_session", <<>>, TRUE, <<>>, <<>>)
    /\ UNCHANGED <<qna, clock, procs, feathers>>

ChatTurn(query, gitOk) ==
    /\ session = "running"
    /\ Command(query) = "query"
    /\ autoCommit \/ gitOk
    /\ LET t == TurnOutcome(query, gitOk)
       IN  /\ t.clock <= MaxClock
           /\ qna' = t.qna
           /\ context' = t.context
           /\ history' = t.history
           /\ clock' = t.clock
           /\ session' = IF t.ok THEN "running" ELSE AfterException
           /\ turns' = IF t.processed THEN turns + 1 ELSE turns
           /\ fails' = IF t.ok THEN 0 ELSE Min(fails + 1, MaxFails)
           /\ obs' = ObserveQuery("chat", query, EmptyDict, t.ok, t.calls, t.result)
    /\ UNCHANGED <<autoCommit, base, procs, feathers>>

ChatExit(query) ==
    /\ session = "running"
    /\ Command(query) = "exit"
    /\ LET s == _end_session(history, qna)
       IN  /\ qna' = s.qna
           /\ session' = IF s.ok THEN AfterBreak ELSE AfterException
           /\ fails' = IF s.ok THEN fails ELSE Min(fails + 1, MaxFails)
           /\ obs' = Observe("chat", query, s.ok,
                             <<Call("_end_session", query, s.ok)>>, history)
    /\ UNCHANGED <<clock, history, context, autoCommit, base, turns, procs, feathers>>

ChatHelp(query) ==
    /\ session = "running"
    /\ Command(query) = "help"
    /\ obs' = Observe("chat", query, TRUE, <<Call("_show_help", query, TRUE)>>, <<>>)
    /\ UNCHANGED <<qna, clock, session, history, context, autoCommit, base, turns, fails, procs, feathers>>

ChatShowHistory(query) ==
    /\ session = "running"
    /\ Command(query) = "history"
    /\ obs' = Observe("chat", query, TRUE, <<Call("_show_history", query, TRUE)>>, <<>>)
    /\ UNCHANGED <<qna, clock, session, history, context, autoCommit, base, turns, fails, procs, feathers>>

\* the session's process is killed while write_text of a history append is
\* rewriting qna.json: the file keeps a proper prefix of the new text
ChatCrash(query) ==
    /\ session = "running"
    /\ Command(query) \in {"query", "exit"}
    /\ Command(query) = "query" => clock + 1 <= MaxClock
    /\ LET r == process_query(query, EmptyDict, context, qna, clock + 1)
           s == _end_session(history, qna)
           w == IF Command(query) = "query" THEN r ELSE s
       IN  /\ w.ok
           /\ \E cut \in Truncations(w.qna.text) : qna' = WriteText(cut)
           /\ clock' = IF Command(query) = "query" THEN clock + 1 ELSE clock
    /\ session' = "none"
    /\ history' = <<>>
    /\ context' = EmptyDict
    /\ turns' = 0
    /\ fails' = 0
    /\ obs' = Observe("crash", query, FALSE, <<>>, <<>>)
    /\ UNCHANGED <<autoCommit, base, procs, feathers>>

\* the places of one iteration of the loop of start_session where Ctrl-C can
\* raise KeyboardInterrupt, by the command the input is.  "typed" is the
\* prompt and the if/elif chain, before anything is called; "reporting" is
\* the "except Exception" handler of a turn that has failed.
InterruptPoints(command) ==
    IF command = "query"
    THEN {"typed", "generating", "structuring", "structured", "validating", "validated",
          "executing", "executed", "updating", "loading", "opened", "written",
          "returning", "handling", "appending", "stamped", "displaying", "handled",
          "committing", "committed", "reporting"}
    ELSE IF command = "exit"
    THEN {"typed", "saving", "opened", "saved", "ended", "reporting"}
    ELSE {"typed", "showing", "shown"}

\* what the iteration has done when KeyboardInterrupt is raised at the point.
\* KeyboardInterrupt is no Exception: no handler below start_session catches
\* it, nothing is undone or completed, and every call it passes through has
\* raised.  The interrupt is raised between two bytecodes, so a write_text
\* it leaves has opened the file (and emptied it) or has written all of it.
\*   generating   in process_query, before _process_query
\*   structuring  in _process_query;  structured  back in generate
\*   validating   in validate_code;   validated   back in generate
\*   executing    in _execute_analysis;  executed  back in process_query
\*   updating     after _create_result read the clock
\*   loading      in _update_history, before write_text opened the file
\*   opened       in write_text, the file opened and empty
\*   written      in _update_history, the file written
\*   returning    _update_history has returned, process_query has not
\*   handling     process_query has returned
\*   appending    in _handle_result, before datetime.now()
\*   stamped      in _handle_result, after datetime.now(), before the append
\*   displaying   in _handle_result, after the append
\*   handled      _handle_result has returned
\*   committing   in commit_changes;  committed  commit_changes has returned
\*   saving       (exit) in _end_session, before write_text opened the file
\*   saved        (exit) in _end_session, the file written
\*   ended        (exit) _end_session has returned, at the break
\*   showing      (help, history) in _show_help or _show_history;  shown  after
InterruptOutcomes(query, point) ==
    LET r == process_query(query, EmptyDict, context, qna, clock + 1)
        t == TurnOutcome(query, TRUE)
        f == TurnOutcome(query, FALSE)
        s == _end_session(history, qna)
        code == query \o CodeSuffix
        same == [qna |-> qna, history |-> history, clock |-> clock, turns |-> turns,
                 fails |-> fails, calls |-> <<>>, result |-> NoResult]
        pq(ret) == <<Call("process_query", query, ret)>>
        ppq(ret) == <<Call("_process_query", query, ret)>>
        vc(ret) == <<Call("validate_code", code, ret)>>
        ea(ret) == <<Call("_execute_analysis", code, ret)>>
        uh(ret) == <<Call("_update_history", query, ret)>>
        hr(ret) == <<Call("_handle_result", query, ret)>>
        cc(ret) == <<Call("commit_changes", query, ret)>>
        es(ret) == <<Call("_end_session", query, ret)>>
        show(ret) == <<Call(IF Command(query) = "help" THEN "_show_help"
                            ELSE "_show_history", query, ret)>>
        generated == ppq(TRUE) \o vc(TRUE) \o ea(TRUE)
        returned == [same EXCEPT !.qna = r.qna, !.clock = clock + 1,
                                 !.turns = turns + 1, !.result = r.result]
        appended == [returned EXCEPT !.history = t.history, !.clock = t.clock]
        failed == [same EXCEPT !.fails = Min(fails + 1, MaxFails)]
    IN  CASE point = "typed" -> {same}
          [] point = "showing" -> {[same EXCEPT !.calls = show(FALSE)]}
          [] point = "shown" -> {[same EXCEPT !.calls = show(TRUE)]}
          [] point = "generating" -> {[same EXCEPT !.calls = pq(FALSE)]}
          [] point = "structuring" ->
                {[same EXCEPT !.calls = pq(FALSE) \o ppq(FALSE)]}
          [] point = "structured" ->
                {[same EXCEPT !.calls = pq(FALSE) \o ppq(TRUE)]}
          [] point = "validating" ->
                {[same EXCEPT !.calls = pq(FALSE) \o ppq(TRUE) \o vc(FALSE)]}
          [] point = "validated" ->
                {[same EXCEPT !.calls = pq(FALSE) \o ppq(TRUE) \o vc(TRUE)]}
          [] point = "executing" ->
                {[same EXCEPT !.calls = pq(FALSE) \o ppq(TRUE) \o vc(TRUE) \o ea(FALSE)]}
          [] point = "executed" ->
                {[same EXCEPT !.calls = pq(FALSE) \o generated]}
          [] point = "updating" ->
                {[same EXCEPT !.clock = clock + 1, !.calls = pq(FALSE) \o generated]}
          [] point = "loading" ->
                {[same EXCEPT !.clock = clock + 1,
                              !.calls = pq(FALSE) \o generated \o uh(FALSE)]}
          [] point = "opened" /\ Command(query) = "query" ->
                IF r.ok
                THEN {[same EXCEPT !.qna = WriteText(EmptyText), !.clock = clock + 1,
                                   !.calls = pq(FALSE) \o generated \o uh(FALSE)]}
                ELSE {}
          [] point = "written" ->
                IF r.ok
                THEN {[same EXCEPT !.qna = r.qna, !.clock = clock + 1,
                                   !.calls = pq(FALSE) \o generated \o uh(FALSE)]}
                ELSE {}
          [] point = "returning" ->
                IF r.ok
                THEN {[same EXCEPT !.qna = r.qna, !.clock = clock + 1,
                                   !.calls = pq(FALSE) \o generated \o uh(TRUE)]}
                ELSE {}
          [] point = "handling" ->
                IF r.ok
                THEN {[returned EXCEPT !.calls = pq(TRUE) \o r.calls]}
                ELSE {}
          [] point = "appending" ->
                IF r.ok
                THEN {[returned EXCEPT !.calls = pq(TRUE) \o r.calls \o hr(FALSE)]}
                ELSE {}
          [] point = "stamped" ->
                IF r.ok
                THEN {[returned EXCEPT !.clock = t.clock,
                                       !.calls = pq(TRUE) \o r.calls \o hr(FALSE)]}
                ELSE {}
          [] point = "displaying" ->
                IF r.ok
                THEN {[appended EXCEPT !.calls = pq(TRUE) \o r.calls \o hr(FALSE)]}
                ELSE {}
          [] point = "handled" ->
                IF r.ok
                THEN {[appended EXCEPT !.calls = pq(TRUE) \o r.calls \o hr(TRUE)]}
                ELSE {}
          [] point = "committing" ->
                IF r.ok /\ autoCommit
                THEN {[appended EXCEPT !.calls = pq(TRUE) \o r.calls \o hr(TRUE)
                                                 \o cc(FALSE)]}
                ELSE {}
          [] point = "committed" ->
                IF r.ok /\ autoCommit
                THEN {[appended EXCEPT !.calls = t.calls]}
                ELSE {}
          [] point = "reporting" /\ Command(query) = "query" ->
                IF ~f.ok
                THEN {[failed EXCEPT !.qna = f.qna, !.history = f.history,
                                     !.clock = f.clock,
                                     !.turns = IF f.processed THEN turns + 1 ELSE turns,
                                     !.result = f.result, !.calls = f.calls]}
                ELSE {}
          [] point = "saving" -> {[same EXCEPT !.calls = es(FALSE)]}
          [] point = "opened" /\ Command(query) = "exit" ->
                IF s.ok
                THEN {[same EXCEPT !.qna = WriteText(EmptyText), !.calls = es(FALSE)]}
                ELSE {}
          [] point = "saved" ->
                IF s.ok
                THEN {[same EXCEPT !.qna = s.qna, !.calls = es(FALSE)]}
                ELSE {}
          [] point = "ended" ->
                IF s.ok
                THEN {[same EXCEPT !.qna = s.qna, !.calls = es(TRUE)]}
                ELSE {}
          [] point = "reporting" /\ Command(query) = "exit" ->
                IF ~s.ok
                THEN {[failed EXCEPT !.calls = es(FALSE)]}
                ELSE {}

\* the inputs of the iterations that are interrupted: one of each command
InterruptInputs == {S_mean, S_exit, S_help, S_history}

\* Ctrl-C during an iteration of the loop of start_session:
\* "except KeyboardInterrupt" prints and breaks, with whatever the iteration
\* had done by then; out of the "except Exception" handler the interrupt
\* leaves start_session by itself.  Either way the session is over.
ChatInterrupt(query, point) ==
    /\ session = "running"
    /\ point \in InterruptPoints(Command(query))
    /\ \E o \in InterruptOutcomes(query, point) :
          /\ o.clock <= MaxClock
          /\ qna' = o.qna
          /\ history' = o.history
          /\ clock' = o.clock
          /\ turns' = o.turns
          /\ fails' = o.fails
          /\ obs' = ObserveQuery("interrupt", query, EmptyDict, FALSE, o.calls, o.result)
    /\ session' = AfterBreak
    /\ UNCHANGED <<context, autoCommit, base, procs, feathers>>

\* the analyze command of the CLI without --chat: a fresh QueryManager, one
\* process_query, then commit_changes when --save is on.  It is run while no
\* chat session is: one process at a time uses qna.json here, and SpecConc
\* below is about two at once.
Analyze(query, save, gitOk) ==
    /\ session # "running"
    /\ save \/ gitOk
    /\ LET r == process_query(query, EmptyDict, EmptyDict, qna, clock + 1)
           c == commit_changes(gitOk)
           committed == save /\ r.ok
       IN  IF query = <<>>
           THEN \* "if not query: raise typer.BadParameter"
                /\ gitOk
                /\ obs' = Observe("analyze", query, FALSE, <<>>, <<>>)
                /\ UNCHANGED <<qna, clock>>
           ELSE /\ clock + 1 <= MaxClock
                /\ qna' = r.qna
                /\ clock' = clock + r.ticks
                /\ obs' = ObserveQuery("analyze", query, EmptyDict,
                                       r.ok /\ (committed => c.ok),
                                       <<Call("process_query", query, r.ok)>> \o r.calls
                                       \o (IF committed
                                           THEN <<Call("commit_changes", query, c.ok)>>
                                           ELSE <<>>),
                                       r.result)
    /\ UNCHANGED <<session, history, context, autoCommit, base, turns, fails, procs, feathers>>

NoProcs == <<>>

Init ==
    /\ qna \in {AbsentFile, WriteText(JsonDumps(<<>>))}
    /\ clock = 0
    /\ session = "none"
    /\ history = <<>>
    /\ context = EmptyDict
    /\ autoCommit = FALSE
    /\ obs = Observe("init", <<>>, TRUE, <<>>, <<>>)
    /\ base = 0
    /\ turns = 0
    /\ fails = 0
    /\ procs = NoProcs
    /\ feathers = AbsentFile

Next ==
    \/ \E auto \in BOOLEAN : StartSession(auto)
    \/ \E query \in ChatInputs, gitOk \in BOOLEAN : ChatTurn(query, gitOk)
    \/ \E query \in ChatInputs : ChatExit(query)
    \/ \E query \in ChatInputs : ChatHelp(query)
    \/ \E query \in ChatInputs : ChatShowHistory(query)
    \/ \E query \in ChatInputs : ChatCrash(query)
    \/ \E query \in InterruptInputs,
          point \in UNION {InterruptPoints(Command(q)) : q \in InterruptInputs} :
          ChatInterrupt(query, point)
    \/ \E query \in AnalyzeQueries, save \in BOOLEAN, gitOk \in BOOLEAN : Analyze(query, save, gitOk)

Spec == Init /\ [][Next]_vars

----------------------------------------------------------------------------
(* Direct use of a QueryManager: process_query with any query and context,  *)
(* bulk_update_history with any list of entries.                           *)

\* entries handed to bulk_update_history: one as _handle_result builds them,
\* one as _update_history builds them
EntryPool ==
    {[query |-> S_mean, timestamp |-> Isoformat(0), code |-> S_mean \o CodeSuffix],
     [query |-> S_exit, code |-> S_exit \o CodeSuffix, timestamp |-> Isoformat(0),
      context |-> [a |-> 1]]}

BulkLists == UNION {[1..n -> EntryPool] : n \in 0..MaxBulk}

ApiNewManager ==
    /\ context # EmptyDict
    /\ context' = EmptyDict
    /\ obs' = Observe("QueryManager", <<>>, TRUE, <<>>, <<>>)
    /\ UNCHANGED <<qna, clock, session, history, autoCommit, base, turns, fails, procs, feathers>>

ApiProcessQuery(query, ctxArg) ==
    /\ clock + 1 <= MaxClock
    /\ LET r == process_query(query, ctxArg, context, qna, clock + 1)
       IN  /\ qna' = r.qna
           /\ context' = r.context
           /\ clock' = clock + r.ticks
           /\ obs' = ObserveQuery("process_query", query, ctxArg, r.ok, r.calls, r.result)
    /\ UNCHANGED <<session, history, autoCommit, base, turns, fails, procs, feathers>>

ApiBulkUpdate(entries) ==
    /\ Len(qna.text.items) + Len(entries) <= MaxItems
    /\ LET b == bulk_update_history(entries, qna)
       IN  /\ qna' = b.qna
           /\ obs' = Observe("bulk_update_history", <<>>, b.ok, <<>>, entries)
    /\ UNCHANGED <<clock, session, history, context, autoCommit, base, turns, fails, procs, feathers>>

\* the process is killed while write_text of _update_history is rewriting the file
ApiCrashInUpdate(query, ctxArg) ==
    /\ clock + 1 <= MaxClock
    /\ LET r == process_query(query, ctxArg, context, qna, clock + 1)
       IN  /\ r.ok
           /\ \E cut \in Truncations(r.qna.text) : qna' = WriteText(cut)
    /\ clock' = clock + 1
    /\ context' = EmptyDict
    /\ obs' = Observe("crash", query, FALSE, <<>>, <<>>)
    /\ UNCHANGED <<session, history, autoCommit, base, turns, fails, procs, feathers>>

\* the process is killed while write_text of bulk_update_history is rewriting the file
ApiCrashInBulk(entries) ==
    /\ Len(qna.text.items) + Len(entries) <= MaxItems
    /\ LET b == bulk_update_history(entries, qna)
       IN  /\ b.ok
           /\ \E cut \in Truncations(b.qna.text) : qna' = WriteText(cut)
    /\ context' = EmptyDict
    /\ obs' = Observe("crash", <<>>, FALSE, <<>>, entries)
    /\ UNCHANGED <<clock, session, history, autoCommit, base, turns, fails, procs, feathers>>

NextApi ==
    \/ ApiNewManager
    \/ \E query \in ApiQueries, ctxArg \in ApiContexts : ApiProcessQuery(query, ctxArg)
    \/ \E entries \in BulkLists : ApiBulkUpdate(entries)

SpecApi == Init /\ [][NextApi]_vars

\* the same calls, any of which may be cut short by the death of the process
NextCrash ==
    \/ ApiNewManager
    \/ \E query \in ApiQueries, ctxArg \in ApiContexts : ApiProcessQuery(query, ctxArg)
    \/ \E entries \in BulkLists : ApiBulkUpdate(entries)
    \/ \E query \in ApiQueries, ctxArg \in ApiContexts : ApiCrashInUpdate(query, ctxArg)
    \/ \E entries \in BulkLists : ApiCrashInBulk(entries)

SpecCrash == Init /\ [][NextCrash]_vars

----------------------------------------------------------------------------
(* Two processes appending to the same qna.json.  Neither _update_history  *)
(* nor bulk_update_history takes a lock, so the load and the rewrite of    *)
(* one append are separate steps that another process can come between.    *)

Writers == {1, 2}

\* the length of json.dumps(s) for a str s: the quotes, the characters, and
\* one more for each newline, written as \n
StrSize(str) == 2 + Len(str) + Cardinality({i \in DOMAIN str : str[i] = "\n"})

\* the length of json.dumps of a context inside an entry (indent=2): keys of
\* one character, values of one digit
ContextSize(ctx) == IF DOMAIN ctx = {} THEN 2 ELSE 14 * Cardinality(DOMAIN ctx) + 6

\* the length of json.dumps of one entry inside the array (indent=2), with a
\* timestamp of 19 characters (isoformat() of a time with no microseconds)
EntrySize(e) ==
    6 + 2 * (Cardinality(DOMAIN e) - 1)
    + (13 + StrSize(e.query)) + (17 + 21) + (12 + StrSize(e.code))
    + (IF "context" \in DOMAIN e THEN 15 + ContextSize(e.context) ELSE 0)

RECURSIVE EntriesSize(_)
EntriesSize(items) ==
    IF items = <<>> THEN 0 ELSE 2 + EntrySize(Head(items)) + 2 + EntriesSize(Tail(items))

\* the length of a text in characters
RECURSIVE TextSize(_)
TextSize(text) ==
    IF text.tail # NoTail THEN TextSize(text.tail.text)
    ELSE IF ~text.open THEN 0
    ELSE IF text.items = <<>> THEN 2
    ELSE 2 + EntriesSize(text.items)

\* a text written at offset 0 of a file that has not been emptied since it
\* last received one: what the file holds beyond the new text stays
Overwrite(old, new) ==
    IF TextSize(old) > TextSize(new)
    THEN [new EXCEPT !.tail = [from |-> TextSize(new), text |-> old]]
    ELSE new

\* what one writer appends: the one object of _update_history, or the list
\* given to bulk_update_history
AppendLists == BulkLists \ {<<>>}

\* "Load existing history": exists(), read_text(), json.loads
ConcLoad(p) ==
    /\ procs[p].pc = "start"
    /\ LET loaded == LoadHistory(qna)
       IN  procs' = [procs EXCEPT ![p].pc = IF loaded.ok THEN "loaded" ELSE "failed",
                                  ![p].loaded = loaded.value]
    /\ UNCHANGED <<qna, clock, session, history, context, autoCommit, obs, base, turns, fails,
                   feathers>>

\* history.append / history.extend, then the first half of write_text:
\* open(path, "w") creates the file or empties it
ConcOpen(p) ==
    /\ procs[p].pc = "loaded"
    /\ qna' = WriteText(EmptyText)
    /\ procs' = [procs EXCEPT ![p].pc = "opened"]
    /\ UNCHANGED <<clock, session, history, context, autoCommit, obs, base, turns, fails,
                   feathers>>

\* the second half of write_text: json.dumps(history) is written to the open
\* file from its beginning, and the file is closed.  The file is empty unless
\* the other writer has written since this one opened it.
ConcWrite(p) ==
    /\ procs[p].pc = "opened"
    /\ qna' = WriteText(Overwrite(qna.text,
                                  JsonDumps(procs[p].loaded \o procs[p].entries)))
    /\ procs' = [procs EXCEPT ![p].pc = "done"]
    /\ UNCHANGED <<clock, session, history, context, autoCommit, obs, base, turns, fails,
                   feathers>>

InitConc ==
    /\ qna \in {AbsentFile, WriteText(JsonDumps(<<>>))}
               \cup {WriteText(JsonDumps(<<e>>)) : e \in EntryPool}
    /\ clock = 0
    /\ session = "none"
    /\ history = <<>>
    /\ context = EmptyDict
    /\ autoCommit = FALSE
    /\ obs = Observe("init", <<>>, TRUE, <<>>, <<>>)
    /\ base = 0
    /\ turns = 0
    /\ fails = 0
    /\ procs \in [Writers -> {[pc |-> "start", entries |-> l, loaded |-> <<>>] :
                               l \in AppendLists}]
    /\ feathers = AbsentFile

NextConc ==
    \/ \E p \in Writers : ConcLoad(p)
    \/ \E p \in Writers : ConcOpen(p)
    \/ \E p \in Writers : ConcWrite(p)

SpecConc == InitConc /\ [][NextConc]_vars

----------------------------------------------------------------------------
(* ConfigHandler and the file .feathers.  A Python value of the            *)
(* configuration is [type, val]: a str or a bool; its JSON text is         *)
(* [lit, str]: a quoted string, or the literal true or false.  The text of *)
(* the file is a JSON object, kept as its members.                         *)

PyStr(s) == [type |-> "str", val |-> s]
PyBool(b) == [type |-> "bool", val |-> IF b THEN "True" ELSE "False"]

\* json.dumps of one value
JsonValue(v) ==
    IF v.type = "bool"
    THEN [lit |-> IF v.val = "True" THEN "true" ELSE "false", str |-> ""]
    ELSE [lit |-> "string", str |-> v.val]

\* json.loads of one value
PyValue(j) ==
    IF j.lit = "string"
    THEN [type |-> "str", val |-> j.str]
    ELSE [type |-> "bool", val |-> IF j.lit = "true" THEN "True" ELSE "False"]

\* json.dumps(config, indent=2)
JsonDumpsObject(config) ==
    [kind |-> "object", members |-> [k \in DOMAIN config |-> JsonValue(config[k])]]

\* json.loads(self.config_path.read_text())
JsonLoadsObject(text) == [k \in DOMAIN text.members |-> PyValue(text.members[k])]

AbsentConfig == [exists |-> FALSE, text |-> JsonDumpsObject(EmptyDict)]

\* ConfigDefaults
ConfigDefaults ==
    [output_format |-> PyStr("text"), auto_commit |-> PyBool(TRUE),
     save_history |-> PyBool(TRUE)]

\* ConfigHandler._create_default_config
_create_default_config ==
    [output_format |-> ConfigDefaults.output_format,
     auto_commit |-> ConfigDefaults.auto_commit,
     save_history |-> ConfigDefaults.save_history]

\* ConfigHandler._save_config
_save_config(config) == WriteText(JsonDumpsObject(config))

\* get_config as it would be if the defaults it creates were not saved
get_config_unsaved(file) ==
    LET loaded == JsonLoadsObject(file.text)
    IN  IF file.exists /\ loaded # EmptyDict
        THEN [ok |-> TRUE, config |-> loaded, file |-> file]
        ELSE [ok |-> TRUE, config |-> _create_default_config, file |-> file]

\* ConfigHandler.get_config on the file as it is: the configuration returned
\* and the file afterwards
get_config(file) ==
    LET loaded == JsonLoadsObject(file.text)
    IN  IF file.exists
        THEN IF loaded = EmptyDict
             THEN [ok |-> TRUE, config |-> _create_default_config,
                   file |-> _save_config(_create_default_config)]
             ELSE [ok |-> TRUE, config |-> loaded, file |-> file]
        ELSE [ok |-> TRUE, config |-> _create_default_config,
              file |-> _save_config(_create_default_config)]

\* set_config as it would be if it saved the new key alone
set_config_alone(key, value, file) ==
    [ok |-> TRUE, config |-> (key :> value), file |-> _save_config(key :> value)]

\* ConfigHandler.set_config: config = get_config(); config[key] = value; save
set_config(key, value, file) ==
    LET g == get_config(file)
        config == (key :> value) @@ g.config
    IN  [ok |-> TRUE, config |-> config, file |-> _save_config(config)]

\* ConfigHandler.reset_config
reset_config(file) ==
    [ok |-> TRUE, config |-> _create_default_config,
     file |-> _save_config(_create_default_config)]

\* the keys and values handed to set_config
ConfigKeys == {"output_format", "auto_commit", "test_key"}
ConfigValues == {PyStr("json"), PyStr("test_value"), PyBool(FALSE)}

ObserveConfig(op, key, value, r) ==
    [op |-> op, key |-> key, value |-> value, ok |-> r.ok, ret |-> r.config,
     pre |-> feathers]

GetConfig ==
    /\ LET r == get_config(feathers)
       IN  /\ feathers' = r.file
           /\ obs' = ObserveConfig("get_config", "", PyStr(""), r)
    /\ UNCHANGED <<qna, clock, session, history, context, autoCommit, base, turns, fails, procs>>

SetConfig(key, value) ==
    /\ LET r == set_config(key, value, feathers)
       IN  /\ feathers' = r.file
           /\ obs' = ObserveConfig("set_config", key, value, r)
    /\ UNCHANGED <<qna, clock, session, history, context, autoCommit, base, turns, fails, procs>>

ResetConfig ==
    /\ LET r == reset_config(feathers)
       IN  /\ feathers' = r.file
           /\ obs' = ObserveConfig("reset_config", "", PyStr(""), r)
    /\ UNCHANGED <<qna, clock, session, history, context, autoCommit, base, turns, fails, procs>>

\* the file is absent, or holds "{}" as create_project writes it
InitConfig ==
    /\ qna = AbsentFile
    /\ clock = 0
    /\ session = "none"
    /\ history = <<>>
    /\ context = EmptyDict
    /\ autoCommit = FALSE
    /\ feathers \in {AbsentConfig, _save_config(EmptyDict)}
    /\ obs = [op |-> "init", key |-> "", value |-> PyStr(""), ok |-> TRUE,
              ret |-> EmptyDict, pre |-> feathers]
    /\ base = 0
    /\ turns = 0
    /\ fails = 0
    /\ procs = NoProcs

NextConfig ==
    \/ GetConfig
    \/ \E key \in ConfigKeys, value \in ConfigValues : SetConfig(key, value)
    \/ ResetConfig

SpecConfig == InitConfig /\ [][NextConfig]_vars

----------------------------------------------------------------------------
(* DataProcessor.  A data file is [exists, content]; its content is a      *)
(* table of some rows and columns, or something no reader can parse.  A    *)
(* DataFrame is [type, rows, cols].                                        *)

S_csv == <<".", "c", "s", "v">>
S_xlsx == <<".", "x", "l", "s", "x">>
S_json == <<".", "j", "s", "o", "n">>
S_parquet == <<".", "p", "a", "r", "q", "u", "e", "t">>
S_txt == <<".", "t", "x", "t">>

\* self.supported_formats: the reader of each extension
supported_formats ==
    (S_csv :> "_read_csv") @@ (S_xlsx :> "_read_excel") @@
    (S_json :> "_read_json") @@ (S_parquet :> "_read_parquet")

\* str.rfind("."), counted from 1: 0 when there is no dot
RFindDot(name) ==
    LET dots == {i \in DOMAIN name : name[i] = "."}
    IN  IF dots = {} THEN 0 ELSE CHOOSE i \in dots : \A j \in dots : j <= i

\* Path.suffix of a file name: from the last dot on, unless that dot opens
\* or closes the name
Suffix(name) ==
    LET i == RFindDot(name)
    IN  IF 1 < i /\ i < Len(name) THEN SubSeq(name, i, Len(name)) ELSE <<>>

NoData == [type |-> "NoneType", rows |-> 0, cols |-> 0]
DataFrame(rows, cols) == [type |-> "DataFrame", rows |-> rows, cols |-> cols]

\* DataFrame.empty: some axis has length 0
Empty(data) == data.rows = 0 \/ data.cols = 0

\* pd.read_csv, read_excel, read_json, read_parquet on the content of the file
Read(reader, content) ==
    IF content.kind = "table"
    THEN [ok |-> TRUE, data |-> DataFrame(content.rows, content.cols)]
    ELSE [ok |-> FALSE, data |-> NoData]

\* validate_data as it would be without the check of data.empty
validate_data_lenient(data) ==
    IF data.type # "DataFrame"
    THEN [ok |-> FALSE, value |-> FALSE]
    ELSE [ok |-> TRUE, value |-> TRUE]

\* DataProcessor.validate_data: True, or ValueError
validate_data(data) ==
    IF data.type # "DataFrame"
    THEN [ok |-> FALSE, value |-> FALSE]
    ELSE IF Empty(data)
         THEN [ok |-> FALSE, value |-> FALSE]
         ELSE [ok |-> TRUE, value |-> TRUE]

\* DataProcessor.load_data: the DataFrame returned, or the exception raised
load_data(name, file) ==
    LET suffix == Lower(Suffix(name))
    IN  IF ~file.exists
        THEN [ok |-> FALSE, data |-> NoData, error |-> "FileNotFoundError"]
        ELSE IF suffix \notin DOMAIN supported_formats
        THEN [ok |-> FALSE, data |-> NoData, error |-> "ValueError"]
        ELSE LET r == Read(supported_formats[suffix], file.content)
                 v == validate_data(r.data)
             IN  IF ~r.ok
                 THEN [ok |-> FALSE, data |-> NoData, error |-> "ParserError"]
                 ELSE IF ~v.ok
                 THEN [ok |-> FALSE, data |-> NoData, error |-> "ValueError"]
                 ELSE IF v.value
                 THEN [ok |-> TRUE, data |-> r.data, error |-> ""]
                 ELSE [ok |-> TRUE, data |-> NoData, error |-> ""]

\* the file names handed to load_data
DataNames ==
    {<<"d">> \o S_csv, <<"d", ".", "C", "S", "V">>, <<"d">> \o S_xlsx,
     <<"d">> \o S_json, <<"d", ".", "J", "s", "o", "n">>, <<"d">> \o S_parquet,
     <<"d">> \o S_txt, <<"d">>, S_csv, <<"d", ".">>,
     <<"d">> \o S_csv \o S_txt, <<"d">> \o S_txt \o S_csv}

\* what is at the path
DataFiles ==
    {[exists |-> FALSE, content |-> [kind |-> "none", rows |-> 0, cols |-> 0]],
     [exists |-> TRUE, content |-> [kind |-> "unreadable", rows |-> 0, cols |-> 0]]}
    \cup {[exists |-> TRUE, content |-> [kind |-> "table", rows |-> r, cols |-> c]] :
            r \in 0..MaxRows, c \in 0..MaxCols}

LoadData(name, file) ==
    /\ LET r == load_data(name, file)
       IN  obs' = [op |-> "load_data", name |-> name, file |-> file, ok |-> r.ok,
                   data |-> r.data, error |-> r.error]
    /\ UNCHANGED <<qna, clock, session, history, context, autoCommit, base, turns, fails,
                   procs, feathers>>

InitData ==
    /\ qna = AbsentFile
    /\ clock = 0
    /\ session = "none"
    /\ history = <<>>
    /\ context = EmptyDict
    /\ autoCommit = FALSE
    /\ obs = [op |-> "DataProcessor"]
    /\ base = 0
    /\ turns = 0
    /\ fails = 0
    /\ procs = NoProcs
    /\ feathers = AbsentFile

NextData == \E name \in DataNames, file \in DataFiles : LoadData(name, file)

SpecData == InitData /\ [][NextData]_vars

----------------------------------------------------------------------------
(* ProjectInitializer, on the files qna.json and .feathers of the project. *)

\* the text "[]"
EmptyArrayText == [open |-> TRUE, items |-> <<>>, close |-> TRUE, tail |-> NoTail]

\* the text "{}"
EmptyObjectText == [kind |-> "object", members |-> <<>>]

\* create_project as it would be if it wrote only the files that are missing
create_project_keep(qnaFile, configFile, dirsOk, requirementsExists, depsOk) ==
    IF ~dirsOk
    THEN [ok |-> FALSE, qna |-> qnaFile, feathers |-> configFile]
    ELSE [ok |-> requirementsExists /\ depsOk,
          qna |-> IF qnaFile.exists THEN qnaFile ELSE WriteText(EmptyArrayText),
          feathers |-> IF configFile.exists THEN configFile
                       ELSE WriteText(EmptyObjectText)]

\* ProjectInitializer.create_project: _create_directories, then
\* _initialize_files (write "{}", write "[]", copy requirements.txt), then
\* _setup_dependencies; an exception of any of them is raised on
create_project(qnaFile, configFile, dirsOk, requirementsExists, depsOk) ==
    IF ~dirsOk
    THEN [ok |-> FALSE, qna |-> qnaFile, feathers |-> configFile]
    ELSE [ok |-> requirementsExists /\ depsOk,
          qna |-> WriteText(EmptyArrayText),
          feathers |-> WriteText(EmptyObjectText)]

CreateProject(dirsOk, requirementsExists, depsOk) ==
    /\ LET r == create_project(qna, feathers, dirsOk, requirementsExists, depsOk)
       IN  /\ qna' = r.qna
           /\ feathers' = r.feathers
           /\ obs' = [op |-> "create_project", ok |-> r.ok, preQna |-> qna,
                      preFeathers |-> feathers]
    /\ UNCHANGED <<clock, session, history, context, autoCommit, base, turns, fails, procs>>

InitProject ==
    /\ qna = AbsentFile
    /\ clock = 0
    /\ session = "none"
    /\ history = <<>>
    /\ context = EmptyDict
    /\ autoCommit = FALSE
    /\ obs = [op |-> "ProjectInitializer"]
    /\ base = 0
    /\ turns = 0
    /\ fails = 0
    /\ procs = NoProcs
    /\ feathers = AbsentConfig

\* projects are created, and between two creations history is appended and
\* configuration keys are set
NextProject ==
    \/ \E dirsOk \in BOOLEAN, requirementsExists \in BOOLEAN, depsOk \in BOOLEAN :
          CreateProject(dirsOk, requirementsExists, depsOk)
    \/ \E entries \in BulkLists : ApiBulkUpdate(entries)
    \/ \E value \in ConfigValues : SetConfig("test_key", value)

SpecProject == InitProject /\ [][NextProject]_vars

----------------------------------------------------------------------------
(* The claims *)

FileItems(file) == LoadHistory(file).value

CalledIn(calls, fn) == \E i \in DOMAIN calls : calls[i].fn = fn

CommandWords == {S_exit, S_help, S_history}

\* C1: a chat session that processes N queries to completion and is ended
\* with exit leaves qna.json with exactly N entries more than it had when the
\* session started.
C1_OneEntryPerTurn ==
    (obs.op = "chat" /\ Lower(obs.input) = S_exit /\ obs.ok /\ session = "terminated")
        => /\ LoadHistory(qna).ok
           /\ Len(FileItems(qna)) = base + turns

\* C2: a process_query call that fails still leaves one new entry in
\* qna.json, placed last, recording that call's query.
C2_FailedTurnRecorded ==
    (obs.op = "process_query" /\ ~obs.ok /\ LoadHistory(obs.pre).ok)
        => /\ LoadHistory(qna).ok
           /\ Len(FileItems(qna)) = Len(FileItems(obs.pre)) + 1
           /\ FileItems(qna)[Len(FileItems(qna))].query = obs.input

\* C3: within one process_query, _execute_analysis is entered for a code only
\* after validate_code was called on that same code and returned true; when
\* validate_code returns false the call fails and _execute_analysis is not
\* entered.
C3_ExecuteOnlyAfterValidation ==
    /\ \A i \in DOMAIN obs.calls :
          obs.calls[i].fn = "_execute_analysis"
              => \E j \in 1..(i - 1) :
                    obs.calls[j] = Call("validate_code", obs.calls[i].arg, TRUE)
    /\ (\E j \in DOMAIN obs.calls :
            obs.calls[j].fn = "validate_code" /\ ~obs.calls[j].ret)
          => ~obs.ok /\ ~CalledIn(obs.calls, "_execute_analysis")

C3_Witness ==
    /\ obs.op = "process_query"
    /\ obs.ok
    /\ CalledIn(obs.calls, "_execute_analysis")
    /\ obs.calls[2] = Call("validate_code", obs.input \o CodeSuffix, TRUE)

\* C4: after a crash during a history append qna.json holds exactly its old
\* content, or the complete old array followed by the complete new entries;
\* never empty, truncated or partial JSON.
C4_AppendAtomic ==
    obs.op = "crash"
        => \/ qna = obs.pre
           \/ /\ LoadHistory(qna).ok
              /\ Len(FileItems(qna)) >= Len(FileItems(obs.pre))
              /\ SubSeq(FileItems(qna), 1, Len(FileItems(obs.pre))) = FileItems(obs.pre)

\* C5: once two interleaved appends to the same file have both finished
\* (returned, or raised), the file holds the old entries followed by the
\* entries of both appends, in one order or the other.
C5_NoLostAppend ==
    (\A p \in Writers : procs[p].pc \in {"done", "failed"})
        => FileItems(qna) \in
              {FileItems(obs.pre) \o procs[1].entries \o procs[2].entries,
               FileItems(obs.pre) \o procs[2].entries \o procs[1].entries}

\* C6: bulk_update_history(entries) on a file holding k entries leaves k + N
\* entries: the first k are the old ones in their old positions, and positions
\* k+1 .. k+N hold the given entries in their given order.
C6_BulkAppendsInOrder ==
    (obs.op = "bulk_update_history" /\ LoadHistory(obs.pre).ok)
        => LET old == FileItems(obs.pre)
               new == FileItems(qna)
               k == Len(old)
               n == Len(obs.entries)
           IN  /\ obs.ok
               /\ LoadHistory(qna).ok
               /\ Len(new) = k + n
               /\ \A i \in 1..k : new[i] = old[i]
               /\ \A j \in 1..n : new[k + j] = obs.entries[j]

C6_Witness ==
    /\ obs.op = "bulk_update_history"
    /\ obs.ok
    /\ Len(FileItems(obs.pre)) >= 1
    /\ Len(obs.entries) >= 2
    /\ obs.entries[1] # obs.entries[2]

\* C7: when qna.json does not exist, an append by process_query or by
\* bulk_update_history raises nothing, and afterwards the file exists and
\* holds exactly the appended entries.
C7_MissingFileIsEmptyHistory ==
    /\ (obs.op = "process_query" /\ ~obs.pre.exists
            /\ CalledIn(obs.calls, "_update_history"))
          => /\ obs.ok
             /\ qna.exists
             /\ LoadHistory(qna).ok
             /\ Len(FileItems(qna)) = 1
             /\ FileItems(qna)[1].query = obs.input
    /\ (obs.op = "bulk_update_history" /\ ~obs.pre.exists)
          => /\ obs.ok
             /\ qna.exists
             /\ LoadHistory(qna).ok
             /\ FileItems(qna) = obs.entries

C7_Witness ==
    /\ obs.op = "process_query"
    /\ ~obs.pre.exists
    /\ obs.ok
    /\ qna.exists
    /\ Len(FileItems(qna)) = 1

\* C8: a chat turn whose processing raises (in process_query, its history
\* write, or the commit step) leaves the session running, awaiting the next
\* query, however many turns in a row have failed.
C8_ErrorKeepsSession ==
    (obs.op = "chat" /\ ~obs.ok /\ CalledIn(obs.calls, "process_query"))
        => session = "running"

C8_Witness ==
    /\ obs.op = "chat"
    /\ ~obs.ok
    /\ CalledIn(obs.calls, "process_query")
    /\ fails >= 2
    /\ session = "running"

\* C9: for an input that is exit, help or history in any letter case the chat
\* loop does not call process_query, the session history is left as it was,
\* and qna.json is left as it was or (exit) gains the session history as it
\* was before the command: no entry for the command itself.
C9_CommandsShortCircuit ==
    [][(obs'.op = "chat" /\ Lower(obs'.input) \in CommandWords)
          => /\ ~CalledIn(obs'.calls, "process_query")
             /\ history' = history
             /\ \/ qna' = qna
                \/ /\ Lower(obs'.input) = S_exit
                   /\ qna' = WriteText(JsonDumps(FileItems(qna) \o history))]_vars

C9_Witness ==
    /\ obs.op = "chat"
    /\ obs.input = S_Exit
    /\ obs.ok
    /\ Len(history) >= 1
    /\ ~CalledIn(obs.calls, "process_query")

\* C10: after exit is entered the session is terminated, whatever the outcome
\* of saving the session history.
C10_ExitTerminates ==
    (obs.op = "chat" /\ Lower(obs.input) = S_exit) => session = "terminated"

Last(seq) == seq[Len(seq)]

HistoryKeys == {"query", "code", "timestamp", "context"}

\* str.strip() leaves nothing
IsBlank(q) == \A i \in DOMAIN q : q[i] = " "

\* C11: a chat turn interrupted by KeyboardInterrupt while its query is being
\* processed is recorded in qna.json (one new entry, placed last, with the
\* turn's query), and the session is then running again, awaiting a query.
C11_InterruptRecorded ==
    (obs.op = "interrupt" /\ CalledIn(obs.calls, "process_query"))
        => /\ session = "running"
           /\ LoadHistory(qna).ok
           /\ Len(FileItems(qna)) = Len(FileItems(obs.pre)) + 1
           /\ Last(FileItems(qna)).query = obs.input

\* C12: after a process_query call that raised, QueryManager.context is what
\* it was before the call.
C12_FailedTurnKeepsContext ==
    (obs.op = "process_query" /\ ~obs.ok) => context = obs.preContext

\* C13: of two process_query calls that follow one another on one manager
\* and both succeed, with contexts c1 then c2, the context recorded for the
\* second (in its result and in its history entry) has c2's value at every key
\* of c2 and c1's value at every key of c1 that c2 lacks.
C13_ContextMerged ==
    [][(/\ obs.op = "process_query" /\ obs.ok
        /\ obs'.op = "process_query" /\ obs'.ok
        /\ clock' = clock + 1)
          => LET c1 == obs.ctxArg
                 c2 == obs'.ctxArg
                 recorded == obs'.result.context
             IN  /\ Last(FileItems(qna')).context = recorded
                 /\ DOMAIN c1 \cup DOMAIN c2 \subseteq DOMAIN recorded
                 /\ \A k \in DOMAIN c2 : recorded[k] = c2[k]
                 /\ \A k \in DOMAIN c1 \ DOMAIN c2 : recorded[k] = c1[k]]_vars

C13_Witness ==
    /\ obs.op = "process_query"
    /\ obs.ok
    /\ obs.ctxArg = [a |-> 1]
    /\ Len(FileItems(qna)) >= 2
    /\ FileItems(qna)[Len(FileItems(qna)) - 1].context = [a |-> 2, b |-> 1]
    /\ Last(FileItems(qna)).context = [a |-> 1, b |-> 1]
    /\ Last(FileItems(qna)).timestamp = Isoformat(clock)
    /\ FileItems(qna)[Len(FileItems(qna)) - 1].timestamp = Isoformat(clock - 1)

\* C14: in a turn whose commit step runs, whether the commit succeeds or
\* fails, qna.json is the file as it was before the turn followed by the one
\* entry of the turn, and in a chat session the session history is the history
\* as it was followed by the one entry of the turn.
C14_CommitKeepsEntry ==
    [][(obs'.op \in {"chat", "analyze", "interrupt"}
        /\ CalledIn(obs'.calls, "commit_changes"))
          => /\ qna' = WriteText(JsonDumps(
                           Append(FileItems(qna),
                                  [query |-> obs'.input,
                                   code |-> obs'.result.code,
                                   timestamp |-> obs'.result.timestamp,
                                   context |-> obs'.result.context])))
             /\ obs'.op \in {"chat", "interrupt"}
                   => /\ Len(history') = Len(history) + 1
                      /\ SubSeq(history', 1, Len(history)) = history
                      /\ Last(history').query = obs'.input
                      /\ Last(history').code = obs'.result.code
             /\ obs'.op = "analyze" => history' = history]_vars

C14_Witness ==
    /\ obs.op = "chat"
    /\ ~obs.ok
    /\ Last(obs.calls) = Call("commit_changes", obs.input, FALSE)
    /\ Len(history) >= 1
    /\ Last(history).query = obs.input
    /\ Last(FileItems(qna)).query = obs.input

\* C15: every object of the qna.json array has the four keys query, code,
\* timestamp and context.
C15_FourKeys ==
    \A i \in DOMAIN qna.text.items : DOMAIN qna.text.items[i] = HistoryKeys

\* C16: for the query "delete all files in /tmp" the turn fails in generation
\* or validation, _execute_analysis is not entered, and one entry is recorded.
C16_OutOfCapabilityRejected ==
    (obs.op = "analyze" /\ obs.input = S_delete /\ LoadHistory(obs.pre).ok)
        => /\ ~obs.ok
           /\ ~CalledIn(obs.calls, "_execute_analysis")
           /\ Len(FileItems(qna)) = Len(FileItems(obs.pre)) + 1

\* C17: a query that is blank after trimming is rejected before any code is
\* generated, in the chat session and in the analyze command: the operation
\* fails, and neither validate_code nor _execute_analysis is called.
C17_BlankQueryRejected ==
    (obs.op \in {"chat", "analyze"} /\ IsBlank(obs.input))
        => /\ ~obs.ok
           /\ ~CalledIn(obs.calls, "validate_code")
           /\ ~CalledIn(obs.calls, "_execute_analysis")

\* C18: when process_query(q) returns, the result's query is q and qna.json
\* is the old array followed by one entry whose query is q and whose code,
\* timestamp and context are those of the result.
C18_ResultMatchesEntry ==
    (obs.op = "process_query" /\ obs.ok)
        => LET old == FileItems(obs.pre)
               new == FileItems(qna)
           IN  /\ obs.result.query = obs.input
               /\ LoadHistory(qna).ok
               /\ Len(new) = Len(old) + 1
               /\ SubSeq(new, 1, Len(old)) = old
               /\ DOMAIN Last(new) = HistoryKeys
               /\ Last(new).query = obs.input
               /\ Last(new).code = obs.result.code
               /\ Last(new).timestamp = obs.result.timestamp
               /\ Last(new).context = obs.result.context

C18_Witness ==
    /\ obs.op = "process_query"
    /\ obs.ok
    /\ Len(FileItems(obs.pre)) >= 1
    /\ obs.ctxArg # EmptyDict
    /\ Last(FileItems(qna)).code = S_mean \o CodeSuffix

\* what the configuration file held: {} when it was absent
ConfigIn(file) == IF file.exists THEN JsonLoadsObject(file.text) ELSE EmptyDict

\* C19: after set_config(k, v), for a recognized or an unknown key k, a
\* following get_config returns a configuration with v at k and with every
\* other key the file held before, at the value it had; the call does not fail.
C19_SetConfigKeepsOthers ==
    obs.op = "set_config"
        => LET before == ConfigIn(obs.pre)
               after == get_config(feathers).config
           IN  /\ obs.ok
               /\ obs.key \in DOMAIN after
               /\ after[obs.key] = obs.value
               /\ \A k \in DOMAIN before \ {obs.key} :
                     k \in DOMAIN after /\ after[k] = before[k]

C19_Witness ==
    /\ obs.op = "set_config"
    /\ obs.key = "test_key"
    /\ obs.value = PyStr("test_value")
    /\ "test_key" \notin DOMAIN ConfigIn(obs.pre)
    /\ "output_format" \in DOMAIN ConfigIn(obs.pre)
    /\ ConfigIn(obs.pre).output_format = PyStr("json")
    /\ get_config(feathers).config.output_format = PyStr("json")
    /\ get_config(feathers).config.test_key = PyStr("test_value")

\* C20: when the configuration file is absent or holds an empty object,
\* get_config returns exactly output_format = "text", auto_commit = true,
\* save_history = true, the file then holds them, and a second get_config
\* returns the same configuration.
C20_DefaultsCreated ==
    (obs.op = "get_config" /\ ConfigIn(obs.pre) = EmptyDict)
        => LET defaults == [output_format |-> PyStr("text"),
                            auto_commit |-> PyBool(TRUE),
                            save_history |-> PyBool(TRUE)]
           IN  /\ obs.ok
               /\ obs.ret = defaults
               /\ feathers.exists
               /\ feathers.text.members =
                      [output_format |-> [lit |-> "string", str |-> "text"],
                       auto_commit |-> [lit |-> "true", str |-> ""],
                       save_history |-> [lit |-> "true", str |-> ""]]
               /\ get_config(feathers).config = defaults
               /\ get_config(feathers).file = feathers

C20_Witness ==
    /\ obs.op = "get_config"
    /\ obs.pre.exists
    /\ ConfigIn(obs.pre) = EmptyDict
    /\ feathers.exists
    /\ DOMAIN feathers.text.members = {"output_format", "auto_commit", "save_history"}

\* the extension of a file name, in lower case
Extension(name) == Lower(Suffix(name))

\* C21: load_data returns a dataset exactly when the file exists, its
\* extension in lower case is .csv, .xlsx, .json or .parquet, and what the
\* reader makes of it is a table with at least one row and one column; the
\* dataset returned is that table.  In every other case it raises and
\* returns nothing.
C21_LoadOnlyValidTables ==
    obs.op = "load_data"
        => LET loadable ==
                   /\ obs.file.exists
                   /\ Extension(obs.name) \in
                          {<<".", "c", "s", "v">>, <<".", "x", "l", "s", "x">>,
                           <<".", "j", "s", "o", "n">>,
                           <<".", "p", "a", "r", "q", "u", "e", "t">>}
                   /\ obs.file.content.kind = "table"
                   /\ obs.file.content.rows > 0
                   /\ obs.file.content.cols > 0
           IN  /\ obs.ok <=> loadable
               /\ obs.ok => /\ obs.data.type = "DataFrame"
                            /\ obs.data.rows = obs.file.content.rows
                            /\ obs.data.cols = obs.file.content.cols
               /\ ~obs.ok => obs.data = NoData /\ obs.error # ""

C21_Witness ==
    /\ obs.op = "load_data"
    /\ obs.name = <<"d", ".", "C", "S", "V">>
    /\ obs.ok
    /\ obs.data.rows = MaxRows

\* an existing .csv file that holds a header and no rows is refused
C21_WitnessRaises ==
    /\ obs.op = "load_data"
    /\ ~obs.ok
    /\ obs.file.exists
    /\ obs.name = <<"d", ".", "c", "s", "v">>
    /\ obs.file.content.kind = "table"
    /\ obs.file.content.rows = 0

\* C22: when create_project returns, qna.json holds the empty array and
\* .feathers the empty object, whatever the two files held before.
C22_CreateProjectEmpties ==
    (obs.op = "create_project" /\ obs.ok)
        => /\ qna.exists
           /\ JsonLoads(qna.text) = [ok |-> TRUE, value |-> <<>>]
           /\ feathers.exists
           /\ feathers.text.kind = "object"
           /\ JsonLoadsObject(feathers.text) = EmptyDict

C22_Witness ==
    /\ obs.op = "create_project"
    /\ obs.ok
    /\ obs.preQna.exists
    /\ Len(obs.preQna.text.items) > 0
    /\ obs.preFeathers.exists
    /\ "test_key" \in DOMAIN obs.preFeathers.text.members
    /\ qna.text.items = <<>>

====
